---- MODULE Spec2Model ----
(***************************************************************************)
(* Model of the Meta Ads account-name updater.                             *)
(*                                                                         *)
(*   update_account_names.py : the name rewriter (a pure function)         *)
(*   meta_ads_updater.py     : the remote update driver and main()         *)
(*                                                                         *)
(* Account names are modelled as sequences of tokens.  Every mapped area   *)
(* label ("North America West", ...), the word "Canada", the word "Area"   *)
(* and every replacement label is one token; tokens are separated by a     *)
(* blank in the real string, so `old_area + " Area"` is the two-token      *)
(* sequence <<old_area, "Area">>.  No mapped label is a substring of       *)
(* another label, of "Canada" or of a replacement, so Python's substring   *)
(* tests and str.replace on the real strings act on these token sequences  *)
(* as the operators below do.                                              *)
(***************************************************************************)
EXTENDS Integers, Sequences, FiniteSets, TLC

VARIABLES
    \* ---- rewriter harness (SpecRewrite) ----
    rpc,            \* "off" | "start" | "once" | "twice"
    name,           \* the input account name
    out1,           \* update_account_name(name)
    out2,           \* update_account_name(out1)
    \* ---- remote driver and main (Spec) ----
    token,          \* ACCESS_TOKEN of main()
    remote,         \* the ad accounts as the remote API holds them
    phase,          \* position of main(): INIT | DRY_RUN | LIVE_RUN | DONE
    history,        \* the phases main() went through, in order
    dry_run,        \* argument of the running process_all_accounts
    accounts,       \* local `accounts` of process_all_accounts
    idx,            \* number of loop iterations completed
    results,        \* local `results` of process_all_accounts
    dry_results,    \* `results` of main() (the dry run's return value)
    response,       \* what the user typed at the prompt
    listing,        \* the data (or error) of the last listing call
    calls           \* log of external calls: get / post / sleep

rvars == <<rpc, name, out1, out2>>
dvars == <<token, remote, phase, history, dry_run, accounts, idx, results,
           dry_results, response, listing, calls>>
vars == <<rpc, name, out1, out2, token, remote, phase, history, dry_run,
          accounts, idx, results, dry_results, response, listing, calls>>

(***************************************************************************)
(* Bounds                                                                  *)
(***************************************************************************)
MaxLen == 4          \* longest input name, in tokens
MaxAccounts == 3     \* most ad accounts the remote API holds

(***************************************************************************)
(* update_account_names.py                                                 *)
(***************************************************************************)
NAW == "North America West"
NAE == "North America East"
NAC == "North America Central"
NASW == "North America Southwest"
NASE == "North America Southeast"
NANE == "North America Northeast"

\* create_area_mapping(): the dict, in insertion order, as <<old, new>> pairs
create_area_mapping_swapped ==
    << <<NAW, NAE>>,
       <<NAE, "United States East">>,
       <<NAC, "United States Central">>,
       <<NASW, "United States Southwest">>,
       <<NASE, "United States Southeast">>,
       <<NANE, "United States Northeast">> >>

create_area_mapping ==
    << <<NAW, "United States West">>,
       <<NAE, "United States East">>,
       <<NAC, "United States Central">>,
       <<NASW, "United States Southwest">>,
       <<NASE, "United States Southeast">>,
       <<NANE, "United States Northeast">> >>

OldLabels == {create_area_mapping[i][1] : i \in DOMAIN create_area_mapping}

\* Python `sub in s` for strings
str_in(sub, s) ==
    \E i \in 1..(Len(s) - Len(sub) + 1) : SubSeq(s, i, i + Len(sub) - 1) = sub

\* s.replace(old, new, 1): the first occurrence only
RECURSIVE str_replace_first(_, _, _)
str_replace_first(s, old, new) ==
    IF Len(s) < Len(old) THEN s
    ELSE IF SubSeq(s, 1, Len(old)) = old
         THEN new \o SubSeq(s, Len(old) + 1, Len(s))
         ELSE <<Head(s)>> \o str_replace_first(Tail(s), old, new)

\* Python s.replace(old, new): every non-overlapping occurrence, left to right
RECURSIVE str_replace(_, _, _)
str_replace(s, old, new) ==
    IF Len(s) < Len(old) THEN s
    ELSE IF SubSeq(s, 1, Len(old)) = old
         THEN new \o str_replace(SubSeq(s, Len(old) + 1, Len(s)), old, new)
         ELSE <<Head(s)>> \o str_replace(Tail(s), old, new)

\* the rewriter without its Canada branch
update_account_name_no_canada(account_name) ==
    LET area_mapping == create_area_mapping
        hits == {i \in DOMAIN area_mapping :
                    str_in(<<area_mapping[i][1]>>, account_name)}
        first == CHOOSE i \in hits : \A j \in hits : i <= j
    IN  IF hits = {} THEN account_name
        ELSE str_replace(account_name, <<area_mapping[first][1]>>,
                         <<area_mapping[first][2]>>)

\* update_account_name(account_name): the for loops return at the first
\* mapping entry (in dict order) whose old label occurs in the name
update_account_name(account_name) ==
    LET area_mapping == create_area_mapping
        hits == {i \in DOMAIN area_mapping :
                    str_in(<<area_mapping[i][1]>>, account_name)}
        first == CHOOSE i \in hits : \A j \in hits : i <= j
    IN  IF str_in(<<"Canada">>, account_name)
        THEN IF hits = {} THEN account_name
             ELSE str_replace(account_name,
                              <<area_mapping[first][1], "Area">>,
                              <<"Canada", "Area">>)
        ELSE IF hits = {} THEN account_name
             ELSE str_replace(account_name, <<area_mapping[first][1]>>,
                              <<area_mapping[first][2]>>)

(***************************************************************************)
(* Rewriter harness: a name is drawn, rewritten, and rewritten again.      *)
(***************************************************************************)
Words == OldLabels \cup {"Canada", "Area", "Mission"}

RECURSIVE SeqsUpTo(_, _)
SeqsUpTo(S, n) ==
    IF n = 0 THEN {<<>>}
    ELSE LET shorter == SeqsUpTo(S, n - 1)
         IN  shorter \cup {Append(s, t) : s \in {u \in shorter : Len(u) = n - 1}, t \in S}

Names == SeqsUpTo(Words, MaxLen)

DriverIdle ==
    /\ token = "none" /\ remote = <<>> /\ phase = "off" /\ history = <<>>
    /\ dry_run = TRUE /\ accounts = <<>> /\ idx = 0
    /\ results = [total_accounts |-> 0, changed |-> 0, unchanged |-> 0,
                  errors |-> 0, changes |-> <<>>]
    /\ dry_results = [total_accounts |-> 0, changed |-> 0, unchanged |-> 0,
                      errors |-> 0, changes |-> <<>>]
    /\ response = "none" /\ listing = [ok |-> FALSE, data |-> <<>>]
    /\ calls = <<>>

InitRewrite ==
    /\ rpc = "start"
    /\ name \in Names
    /\ out1 = <<>>
    /\ out2 = <<>>
    /\ DriverIdle

Rewrite ==
    /\ rpc = "start"
    /\ out1' = update_account_name(name)
    /\ rpc' = "once"
    /\ UNCHANGED <<name, out2>>
    /\ UNCHANGED dvars

RewriteAgain ==
    /\ rpc = "once"
    /\ out2' = update_account_name(out1)
    /\ rpc' = "twice"
    /\ UNCHANGED <<name, out1>>
    /\ UNCHANGED dvars

NextRewrite == Rewrite \/ RewriteAgain

SpecRewrite == InitRewrite /\ [][NextRewrite]_vars

(***************************************************************************)
(* meta_ads_updater.py                                                     *)
(***************************************************************************)
PLACEHOLDER == "YOUR_ACCESS_TOKEN_HERE"
AccessTokens == {PLACEHOLDER, "a configured token"}
ACTIVE == 1                       \* account_status of an active account
Statuses == {ACTIVE, 2}           \* 2: a disabled account
Responses == {"y", "Y", "n", "N", "", "yes"}
NameSamples ==
    { <<"Mission", NAW, "Area">>,
      <<"Mission">>,
      <<"Canada", "Mission", NAE, "Area">> }

\* the remote API's account data: ids are distinct (the position stands for
\* the digits of act_<digits>)
RemoteStates ==
    UNION { [1..n -> [name : NameSamples, account_status : Statuses]] : n \in 0..MaxAccounts }
WithIds(f) ==
    [i \in DOMAIN f |-> [id |-> i, name |-> f[i].name,
                         account_status |-> f[i].account_status]]

EmptyResults(n) ==
    [total_accounts |-> n, changed |-> 0, unchanged |-> 0, errors |-> 0,
     changes |-> <<>>]

Call(op, id, new_name, ok) == [op |-> op, id |-> id, name |-> new_name, ok |-> ok]

\* get_all_ad_accounts() that forgets the account_status test
get_all_ad_accounts_unfiltered(ok, data) ==
    IF ok THEN [i \in DOMAIN data |-> [id |-> data[i].id, name |-> data[i].name]]
    ELSE <<>>

\* get_all_ad_accounts(): ok = the GET succeeded, data = its 'data' array
IsActive(account_data) == account_data.account_status = ACTIVE
get_all_ad_accounts(ok, data) ==
    IF ok
    THEN LET active == SelectSeq(data, IsActive)
         IN  [i \in DOMAIN active |-> [id |-> active[i].id, name |-> active[i].name]]
    ELSE <<>>

\* MetaAdsUpdater.update_account_name(): what a successful POST does remotely
post_rename(rem, account_id, new_name) ==
    [i \in DOMAIN rem |->
        IF rem[i].id = account_id THEN [rem[i] EXCEPT !.name = new_name] ELSE rem[i]]

\* the push test that ignores dry_run
should_push_always(dry, original_name, updated_name) ==
    original_name # updated_name

\* lines 115 and 118: the update call is made for a changed name in a live run
should_push(dry, original_name, updated_name) ==
    original_name # updated_name /\ ~dry

ChangeEntry(account) ==
    [account_id |-> account.id, original_name |-> account.name,
     updated_name |-> update_account_name(account.name)]

\* the loop body that counts a failed push as changed
process_account_failure_counted_changed(res, account, dry, success) ==
    IF account.name # update_account_name(account.name)
    THEN [res EXCEPT !.changed = @ + 1,
                     !.changes = Append(@, ChangeEntry(account))]
    ELSE [res EXCEPT !.unchanged = @ + 1]

\* the loop body that records a change only when it was counted as changed
process_account_changes_on_success(res, account, dry, success) ==
    IF account.name # update_account_name(account.name)
    THEN IF dry \/ success
         THEN [res EXCEPT !.changed = @ + 1,
                          !.changes = Append(@, ChangeEntry(account))]
         ELSE [res EXCEPT !.errors = @ + 1]
    ELSE [res EXCEPT !.unchanged = @ + 1]

\* the loop body of process_all_accounts, as it changes `results`
process_account(res, account, dry, success) ==
    LET original_name == account.name
        updated_name == update_account_name(original_name)
    IN  IF original_name # updated_name
        THEN LET counted ==
                    IF ~dry
                    THEN IF success THEN [res EXCEPT !.changed = @ + 1]
                                    ELSE [res EXCEPT !.errors = @ + 1]
                    ELSE [res EXCEPT !.changed = @ + 1]
             IN  [counted EXCEPT !.changes = Append(@, ChangeEntry(account))]
        ELSE [res EXCEPT !.unchanged = @ + 1]

\* the prompt that proceeds unless the user types n
confirmed_unless_no(r) == r \notin {"n", "N"}

\* response.lower() == 'y'
Lower(r) == IF r = "Y" THEN "y" ELSE IF r = "N" THEN "n" ELSE r
confirmed(r) == Lower(r) = "y"

\* process_all_accounts(dry), up to the loop: the listing call and `results`
begin_run(dry, ok) ==
    LET data == IF ok THEN remote ELSE <<>>
        listed == get_all_ad_accounts(ok, data)
    IN  /\ dry_run' = dry
        /\ listing' = [ok |-> ok, data |-> data]
        /\ accounts' = listed
        /\ results' = EmptyResults(Len(listed))
        /\ idx' = 0
        /\ calls' = Append(calls, Call("get", 0, <<>>, ok))
        /\ UNCHANGED remote

Init ==
    /\ rpc = "off" /\ name = <<>> /\ out1 = <<>> /\ out2 = <<>>
    /\ token \in AccessTokens
    /\ \E f \in RemoteStates : remote = WithIds(f)
    /\ phase = "INIT"
    /\ history = <<"INIT">>
    /\ dry_run = TRUE
    /\ accounts = <<>>
    /\ idx = 0
    /\ results = EmptyResults(0)
    /\ dry_results = EmptyResults(0)
    /\ response = "none"
    /\ listing = [ok |-> FALSE, data |-> <<>>]
    /\ calls = <<>>

\* main(): the placeholder token ends the program before anything is called
MainAbort ==
    /\ phase = "INIT"
    /\ token = PLACEHOLDER
    /\ phase' = "DONE"
    /\ history' = Append(history, "DONE")
    /\ UNCHANGED <<token, remote, dry_run, accounts, idx, results, dry_results,
                   response, listing, calls>>
    /\ UNCHANGED rvars

\* main(): process_all_accounts(dry_run=True) is entered
MainDryRun ==
    /\ phase = "INIT"
    /\ token # PLACEHOLDER
    /\ \E ok \in BOOLEAN : begin_run(TRUE, ok)
    /\ phase' = "DRY_RUN"
    /\ history' = Append(history, "DRY_RUN")
    /\ UNCHANGED <<token, dry_results, response>>
    /\ UNCHANGED rvars

\* one iteration of the loop of process_all_accounts
LoopIteration ==
    /\ phase \in {"DRY_RUN", "LIVE_RUN"}
    /\ idx < Len(accounts)
    /\ LET account == accounts[idx + 1]
           updated_name == update_account_name(account.name)
           pushes == should_push(dry_run, account.name, updated_name)
       IN  \E success \in BOOLEAN :
              /\ (~pushes) => success
              /\ results' = process_account(results, account, dry_run, success)
              /\ calls' = IF pushes
                          THEN calls \o <<Call("post", account.id, updated_name, success),
                                          Call("sleep", 0, <<>>, TRUE)>>
                          ELSE calls
              /\ remote' = IF pushes /\ success
                           THEN post_rename(remote, account.id, updated_name)
                           ELSE remote
    /\ idx' = idx + 1
    /\ UNCHANGED <<token, phase, history, dry_run, accounts, dry_results,
                   response, listing>>
    /\ UNCHANGED rvars

\* main(): the dry run returned changed = 0
DryRunNothingToChange ==
    /\ phase = "DRY_RUN"
    /\ idx = Len(accounts)
    /\ results.changed = 0
    /\ dry_results' = results
    /\ phase' = "DONE"
    /\ history' = Append(history, "DONE")
    /\ UNCHANGED <<token, remote, dry_run, accounts, idx, results, response,
                   listing, calls>>
    /\ UNCHANGED rvars

\* main(): the dry run returned changed > 0 and the user does not confirm
DryRunDeclined ==
    /\ phase = "DRY_RUN"
    /\ idx = Len(accounts)
    /\ results.changed > 0
    /\ \E r \in Responses : ~confirmed(r) /\ response' = r
    /\ dry_results' = results
    /\ phase' = "DONE"
    /\ history' = Append(history, "DONE")
    /\ UNCHANGED <<token, remote, dry_run, accounts, idx, results, listing, calls>>
    /\ UNCHANGED rvars

\* main(): the user confirms and process_all_accounts(dry_run=False) is entered
DryRunConfirmed ==
    /\ phase = "DRY_RUN"
    /\ idx = Len(accounts)
    /\ results.changed > 0
    /\ \E r \in Responses : confirmed(r) /\ response' = r
    /\ dry_results' = results
    /\ \E ok \in BOOLEAN : begin_run(FALSE, ok)
    /\ phase' = "LIVE_RUN"
    /\ history' = Append(history, "LIVE_RUN")
    /\ UNCHANGED token
    /\ UNCHANGED rvars

\* main(): the live run returned; final_results is `results`
LiveRunReturns ==
    /\ phase = "LIVE_RUN"
    /\ idx = Len(accounts)
    /\ phase' = "DONE"
    /\ history' = Append(history, "DONE")
    /\ UNCHANGED <<token, remote, dry_run, accounts, idx, results, dry_results,
                   response, listing, calls>>
    /\ UNCHANGED rvars

Next ==
    \/ MainAbort
    \/ MainDryRun
    \/ LoopIteration
    \/ DryRunNothingToChange
    \/ DryRunDeclined
    \/ DryRunConfirmed
    \/ LiveRunReturns

Spec == Init /\ [][Next]_vars

(***************************************************************************)
(* Properties of the rewriter                                              *)
(***************************************************************************)
Rewritten == rpc \in {"once", "twice"}
IsCanada(n) == \E i \in DOMAIN n : n[i] = "Canada"
LabelsIn(n) == {n[i] : i \in DOMAIN n} \cap OldLabels
AreaLabelsIn(n) ==
    {l \in OldLabels : \E i \in DOMAIN n : i < Len(n) /\ n[i] = l /\ n[i + 1] = "Area"}
\* the first label, in mapping order, that occurs in n (n holds one)
FirstLabelIndex(n) ==
    CHOOSE i \in DOMAIN create_area_mapping :
        /\ create_area_mapping[i][1] \in LabelsIn(n)
        /\ \A j \in 1..(i - 1) : create_area_mapping[j][1] \notin LabelsIn(n)

\* C5 (as claimed): a name that contains "Canada" and some "<old> Area" comes
\* back with that "<old> Area" replaced by "Canada Area" and the rest as it
\* was, also when another mapped label without " Area" occurs in the name.
C5_CanadaAreaReplaced ==
    (Rewritten /\ IsCanada(name) /\ AreaLabelsIn(name) # {}) =>
        \E l \in AreaLabelsIn(name) :
            \/ out1 = str_replace(name, <<l, "Area">>, <<"Canada", "Area">>)
            \/ out1 = str_replace_first(name, <<l, "Area">>, <<"Canada", "Area">>)

\* C6 (as claimed): in a name without "Canada" that holds a mapped label,
\* only the first occurrence of the first matching label is replaced and a
\* later occurrence of that label stays.
C6_FirstOccurrenceOnly ==
    (Rewritten /\ ~IsCanada(name) /\ LabelsIn(name) # {}) =>
        LET k == FirstLabelIndex(name)
        IN  out1 = str_replace_first(name, <<create_area_mapping[k][1]>>,
                                     <<create_area_mapping[k][2]>>)

\* C6 (amended): in a name without "Canada" that holds a mapped label, every
\* occurrence of the first matching label (in mapping order) is replaced by
\* its new label, and every other token, other mapped labels included, stays.
C6_EveryOccurrenceReplaced ==
    (Rewritten /\ ~IsCanada(name) /\ LabelsIn(name) # {}) =>
        LET k == FirstLabelIndex(name)
        IN  /\ Len(out1) = Len(name)
            /\ \A i \in DOMAIN name :
                  out1[i] = IF name[i] = create_area_mapping[k][1]
                            THEN create_area_mapping[k][2]
                            ELSE name[i]

C6_Witness ==
    /\ rpc = "once" /\ ~IsCanada(name)
    /\ Cardinality(LabelsIn(name)) = 2
    /\ \E i, j \in DOMAIN name :
          /\ i < j
          /\ name[i] = create_area_mapping[FirstLabelIndex(name)][1]
          /\ name[j] = name[i]
          /\ out1[i] = create_area_mapping[FirstLabelIndex(name)][2]
          /\ out1[j] = out1[i]

\* C7 (as claimed): rewriting twice gives what rewriting once gives, for
\* every name.
C7_Idempotent == (rpc = "twice") => out2 = out1

\* C7 (amended): rewriting twice gives what rewriting once gives, for every
\* name that holds at most one distinct mapped old label (any number of
\* times, with or without "Canada").
C7_IdempotentOneLabel ==
    (rpc = "twice" /\ Cardinality(LabelsIn(name)) <= 1) => out2 = out1

C7_Witness ==
    /\ rpc = "twice" /\ Cardinality(LabelsIn(name)) = 1
    /\ out1 # name /\ out2 = out1

\* C8: a name that contains "Canada" and no "<old> Area" comes back as it
\* was, also when it holds a mapped label without the " Area" suffix.
C8_CanadaWithoutAreaUnchanged ==
    (Rewritten /\ IsCanada(name) /\ AreaLabelsIn(name) = {}) => out1 = name

C8_Witness ==
    /\ rpc = "once" /\ IsCanada(name) /\ AreaLabelsIn(name) = {}
    /\ LabelsIn(name) # {} /\ out1 = name

(***************************************************************************)
(* Properties of the remote driver and of main()                           *)
(***************************************************************************)
IsPost(c) == c.op = "post"
Posts == SelectSeq(calls, IsPost)
Visited(p) == \E i \in DOMAIN history : history[i] = p
Renamed(account) == update_account_name(account.name) # account.name
\* the accounts of the current listing handled so far whose name changes
ChangedIdx == {i \in 1..idx : Renamed(accounts[i])}
\* the k-th of them, in listing order
KthChanged(k) ==
    CHOOSE i \in ChangedIdx : Cardinality({j \in ChangedIdx : j <= i}) = k

\* C1: a dry run never makes the update call; a live run makes it exactly
\* once for each listed account whose rewritten name differs, in listing
\* order, never for an unchanged account, and sleeps after each call before
\* the next.
C1_PushOncePerChangedAccount ==
    /\ ~Visited("LIVE_RUN") => Posts = <<>>
    /\ Visited("LIVE_RUN") =>
          /\ Len(Posts) = Cardinality(ChangedIdx)
          /\ \A k \in DOMAIN Posts :
                /\ Posts[k].id = accounts[KthChanged(k)].id
                /\ Posts[k].name = update_account_name(accounts[KthChanged(k)].name)
    /\ \A k \in DOMAIN calls :
          calls[k].op = "post" => (k < Len(calls) /\ calls[k + 1].op = "sleep")
    /\ \A k \in DOMAIN calls :
          calls[k].op = "sleep" => (k > 1 /\ calls[k - 1].op = "post")

C1_Witness ==
    /\ phase = "DONE" /\ Visited("LIVE_RUN")
    /\ Len(accounts) = 3 /\ Len(Posts) = 2
    /\ ~Renamed(accounts[2])
    /\ ~Posts[1].ok /\ Posts[2].ok

C2_Gate ==
    /\ Visited("LIVE_RUN") =>
          /\ SubSeq(history, 1, 3) = <<"INIT", "DRY_RUN", "LIVE_RUN">>
          /\ dry_results.changed > 0
          /\ dry_results.changed + dry_results.unchanged = dry_results.total_accounts
    /\ Posts # <<>> => Visited("LIVE_RUN")
    /\ (phase = "DONE" /\ ~Visited("LIVE_RUN")) => Posts = <<>>
    /\ (phase = "DONE" /\ Visited("DRY_RUN") /\ dry_results.changed = 0) =>
          ~Visited("LIVE_RUN")
    /\ token = PLACEHOLDER => calls = <<>>

\* C2 (as claimed): every execution of main goes INIT -> DRY_RUN -> DONE or
\* INIT -> DRY_RUN -> LIVE_RUN -> DONE; a live run comes only after a
\* completed dry run that reported changed > 0 and the answer 'y'; otherwise
\* no update call is made, and with the placeholder token no call at all.
C2_DryRunAlwaysFirst ==
    /\ phase = "DONE" =>
          history \in { <<"INIT", "DRY_RUN", "DONE">>,
                        <<"INIT", "DRY_RUN", "LIVE_RUN", "DONE">> }
    /\ Visited("LIVE_RUN") => response = "y"
    /\ C2_Gate

\* C2 (amended): every execution of main goes INIT -> DONE (exactly when the
\* token is the placeholder, and then nothing is called), INIT -> DRY_RUN ->
\* DONE or INIT -> DRY_RUN -> LIVE_RUN -> DONE; a live run comes only after a
\* completed dry run that reported changed > 0 and the answer 'y' or 'Y';
\* otherwise no update call is made.
C2_WorkflowPaths ==
    /\ phase = "DONE" =>
          history \in { <<"INIT", "DONE">>,
                        <<"INIT", "DRY_RUN", "DONE">>,
                        <<"INIT", "DRY_RUN", "LIVE_RUN", "DONE">> }
    /\ phase # "DONE" =>
          history \in { <<"INIT">>, <<"INIT", "DRY_RUN">>,
                        <<"INIT", "DRY_RUN", "LIVE_RUN">> }
    /\ phase = history[Len(history)]
    /\ history = <<"INIT", "DONE">> <=> (phase = "DONE" /\ token = PLACEHOLDER)
    /\ Visited("LIVE_RUN") => response \in {"y", "Y"}
    /\ (phase = "DONE" /\ response \notin {"y", "Y"}) => ~Visited("LIVE_RUN")
    /\ C2_Gate

C2_Witness ==
    /\ phase = "DONE"
    /\ history = <<"INIT", "DRY_RUN", "LIVE_RUN", "DONE">>
    /\ response = "Y"
    /\ Len(Posts) = dry_results.changed
    /\ Len(Posts) = 2

\* C3: when a push fails in a live run, errors goes up by exactly one,
\* changed and the entries of changes recorded so far stay, the loop goes on
\* to every remaining account, and the account is not pushed again.
FailedPushStep ==
    /\ Len(calls') = Len(calls) + 2
    /\ calls'[Len(calls) + 1].op = "post"
    /\ ~calls'[Len(calls) + 1].ok
C3_FailedPushCountedOnce ==
    /\ [][FailedPushStep =>
            /\ ~dry_run
            /\ results'.errors = results.errors + 1
            /\ results'.changed = results.changed
            /\ results'.unchanged = results.unchanged
            /\ results'.total_accounts = results.total_accounts
            /\ SubSeq(results'.changes, 1, Len(results.changes)) = results.changes
            /\ idx' = idx + 1
            /\ phase' = phase
            /\ accounts' = accounts
            /\ remote' = remote]_vars
    /\ [](\A i, j \in DOMAIN Posts : Posts[i].id = Posts[j].id => i = j)
    /\ []((phase = "DONE" /\ Visited("LIVE_RUN")) => idx = Len(accounts))
    /\ []((phase = "LIVE_RUN" /\ idx < Len(accounts)) => ENABLED LoopIteration)

C3_Witness ==
    /\ phase = "DONE" /\ Visited("LIVE_RUN")
    /\ Len(accounts) = 3 /\ idx = 3
    /\ Len(Posts) = 3 /\ ~Posts[1].ok /\ Posts[2].ok /\ Posts[3].ok
    /\ results.errors = 1 /\ results.changed = 2

\* C4: get_all_ad_accounts returns exactly the accounts of the listing whose
\* account_status is 1, in listing order, each as {id, name}; when the
\* listing call fails it returns the empty list, and the run has
\* total_accounts = changed = unchanged = errors = 0 and makes no update call.
ActiveIdx == {i \in DOMAIN listing.data : listing.data[i].account_status = 1}
KthActive(k) ==
    CHOOSE i \in ActiveIdx : Cardinality({j \in ActiveIdx : j <= i}) = k
C4_ActiveAccountsOrEmpty ==
    calls # <<>> =>
        /\ listing.ok =>
              /\ Len(accounts) = Cardinality(ActiveIdx)
              /\ \A k \in DOMAIN accounts :
                    /\ DOMAIN accounts[k] = {"id", "name"}
                    /\ accounts[k].id = listing.data[KthActive(k)].id
                    /\ accounts[k].name = listing.data[KthActive(k)].name
              /\ results.total_accounts = Cardinality(ActiveIdx)
        /\ ~listing.ok =>
              /\ accounts = <<>>
              /\ results = [total_accounts |-> 0, changed |-> 0, unchanged |-> 0,
                            errors |-> 0, changes |-> <<>>]
              /\ Posts = <<>>
              /\ phase \in {"DRY_RUN", "LIVE_RUN"} => ENABLED (DryRunNothingToChange \/ LiveRunReturns)

C4_Witness ==
    /\ phase = "DONE" /\ Visited("LIVE_RUN")
    /\ ~listing.ok /\ accounts = <<>> /\ results.total_accounts = 0
    /\ Len(remote) = 3
    /\ remote[1].account_status = 2 /\ remote[2].account_status = 1
    /\ dry_results.total_accounts = 2

\* C9: after every loop iteration changed + unchanged + errors is the number
\* of accounts handled so far (total_accounts at return); changes holds
\* changed + errors entries in a live run and changed entries in a dry run:
\* each account whose rewritten name differs once, in listing order, whether
\* or not its push succeeded.
C9_Accounting ==
    phase \in {"DRY_RUN", "LIVE_RUN", "DONE"} /\ Visited("DRY_RUN") =>
        /\ results.changed + results.unchanged + results.errors = idx
        /\ results.total_accounts = Len(accounts)
        /\ phase = "DONE" => idx = results.total_accounts
        /\ Len(results.changes) = results.changed + results.errors
        /\ dry_run => results.errors = 0
        /\ Len(results.changes) = Cardinality(ChangedIdx)
        /\ \A k \in DOMAIN results.changes :
              /\ results.changes[k].account_id = accounts[KthChanged(k)].id
              /\ results.changes[k].original_name = accounts[KthChanged(k)].name
              /\ results.changes[k].updated_name =
                    update_account_name(accounts[KthChanged(k)].name)

C9_Witness ==
    /\ phase = "LIVE_RUN" /\ idx = 2 /\ Len(accounts) = 3
    /\ results.errors = 1 /\ results.changed = 1
    /\ Len(results.changes) = 2

\* C10 (as claimed): the accounts the live run attempts to rename are exactly
\* the accounts the confirmed dry run reported (same ids, same new names), so
\* changed + errors of the live run is the count the user confirmed, whatever
\* the second listing call returns.
Attempt(e) == <<e.account_id, e.updated_name>>
C10_LiveRunMatchesDryRun ==
    (phase = "DONE" /\ Visited("LIVE_RUN")) =>
        /\ results.changed + results.errors = dry_results.changed
        /\ [k \in DOMAIN results.changes |-> Attempt(results.changes[k])]
             = [k \in DOMAIN dry_results.changes |-> Attempt(dry_results.changes[k])]

====
